---- MODULE Spec2Model ----
(***************************************************************************)
(* Model of the timing-cluster / classification / encoding core of         *)
(* rtl_433_rabbitmq:                                                       *)
(*   src/rabbitmq_to_triq.py     create_histogram, find_timing_bin_index,  *)
(*                               generate_rfraw_from_rabbitmq              *)
(*   src/pulse_data_analyzer.py  PulseDataAnalyzer                         *)
(*                                                                         *)
(* Python floats are modelled as exact rationals <<n, d>> (d > 0, lowest   *)
(* terms).  The input domain below stays away from knife-edge comparisons  *)
(* in which the rounding of an IEEE double decides the tolerance test, so  *)
(* the rational result and the double result agree on every input drawn.   *)
(* A bin is the 4-tuple (mean, count, min, max) of the source; Python      *)
(* index [k] is position k+1 here.                                         *)
(***************************************************************************)
EXTENDS Integers, Sequences, FiniteSets, TLC

----------------------------------------------------------------------------
(* Bounds of the input domain *)

MaxBase == 2
MaxLadder == 9
MaxCreep == 6

(* Durations a short train is drawn from: zero, one, and two values that   *)
(* merge at tolerance 0.2 (5 and 6)                                        *)
Durations == {0, 1, 5, 6}

(* rate_Hz values: negative, zero, and a positive rate low enough for      *)
(* durations of 66 ticks and more to pass 65535 microseconds               *)
Rates == {-250000, 0, 1000}

(* tolerance arguments of a direct create_histogram call                   *)
Tolerances == {<<0, 1>>, <<1, 5>>, <<2, 5>>, <<1, 1>>}

----------------------------------------------------------------------------
(* Rational arithmetic standing for Python float arithmetic *)

Abs(x) == IF x < 0 THEN -x ELSE x

RECURSIVE GCD(_, _)
GCD(a, b) == IF b = 0 THEN a ELSE GCD(b, a % b)

Norm(n, d) ==
    LET s == IF d < 0 THEN -1 ELSE 1
        g == GCD(Abs(n), Abs(d))
    IN  <<(s * n) \div g, (s * d) \div g>>

Q(n) == <<n, 1>>
QAdd(a, b) == Norm(a[1] * b[2] + b[1] * a[2], a[2] * b[2])
QSub(a, b) == Norm(a[1] * b[2] - b[1] * a[2], a[2] * b[2])
QMul(a, b) == Norm(a[1] * b[1], a[2] * b[2])
QDiv(a, b) == Norm(a[1] * b[2], a[2] * b[1])
QAbs(a) == <<Abs(a[1]), a[2]>>
QLe(a, b) == a[1] * b[2] <= b[1] * a[2]
QLt(a, b) == a[1] * b[2] < b[1] * a[2]
QMin(a, b) == IF QLe(a, b) THEN a ELSE b
QMax(a, b) == IF QLe(a, b) THEN b ELSE a

(* int(x): truncation toward zero *)
PyInt(a) == IF a[1] < 0 THEN -((-a[1]) \div a[2]) ELSE a[1] \div a[2]

Min2(a, b) == IF a <= b THEN a ELSE b
Max2(a, b) == IF a >= b THEN a ELSE b

----------------------------------------------------------------------------
(* Python list helpers *)

(* sorted(values): stable insertion sort of integers *)
RECURSIVE InsertInt(_, _)
InsertInt(s, v) ==
    IF s = <<>> THEN <<v>>
    ELSE IF v < Head(s) THEN <<v>> \o s
    ELSE <<Head(s)>> \o InsertInt(Tail(s), v)

(* Sorted with line 16 lost: the values in the order of the input *)
Unsorted(s) == s

(* Sorted with reverse=True: descending order *)
RECURSIVE InsertIntDescending(_, _)
InsertIntDescending(s, v) ==
    IF s = <<>> THEN <<v>>
    ELSE IF v > Head(s) THEN <<v>> \o s
    ELSE <<Head(s)>> \o InsertIntDescending(Tail(s), v)

RECURSIVE SortedDescending(_)
SortedDescending(s) ==
    IF s = <<>> THEN <<>>
    ELSE InsertIntDescending(SortedDescending(SubSeq(s, 1, Len(s) - 1)), s[Len(s)])

RECURSIVE Sorted(_)
Sorted(s) ==
    IF s = <<>> THEN <<>>
    ELSE InsertInt(Sorted(SubSeq(s, 1, Len(s) - 1)), s[Len(s)])

(* SortByMean with reverse=True: descending means *)
RECURSIVE InsertByMeanDescending(_, _)
InsertByMeanDescending(s, b) ==
    IF s = <<>> THEN <<b>>
    ELSE IF QLt(Head(s)[1], b[1]) THEN <<b>> \o s
    ELSE <<Head(s)>> \o InsertByMeanDescending(Tail(s), b)

RECURSIVE SortByMeanDescending(_)
SortByMeanDescending(s) ==
    IF s = <<>> THEN <<>>
    ELSE InsertByMeanDescending(SortByMeanDescending(SubSeq(s, 1, Len(s) - 1)), s[Len(s)])

(* bins.sort(key=lambda x: x[0]): stable sort of bins by mean *)
RECURSIVE InsertByMean(_, _)
InsertByMean(s, b) ==
    IF s = <<>> THEN <<b>>
    ELSE IF QLt(b[1], Head(s)[1]) THEN <<b>> \o s
    ELSE <<Head(s)>> \o InsertByMean(Tail(s), b)

RECURSIVE SortByMean(_)
SortByMean(s) ==
    IF s = <<>> THEN <<>>
    ELSE InsertByMean(SortByMean(SubSeq(s, 1, Len(s) - 1)), s[Len(s)])

(* bins.sort(key=lambda x: x[1]): stable sort of bins by count *)
RECURSIVE InsertByCount(_, _)
InsertByCount(s, b) ==
    IF s = <<>> THEN <<b>>
    ELSE IF b[2] < Head(s)[2] THEN <<b>> \o s
    ELSE <<Head(s)>> \o InsertByCount(Tail(s), b)

RECURSIVE SortByCount(_)
SortByCount(s) ==
    IF s = <<>> THEN <<>>
    ELSE InsertByCount(SortByCount(SubSeq(s, 1, Len(s) - 1)), s[Len(s)])

(* pulses[::2] and pulses[1::2] *)
EvenIdx(s) == [k \in 1..((Len(s) + 1) \div 2) |-> s[2 * k - 1]]
OddIdx(s) == [k \in 1..(Len(s) \div 2) |-> s[2 * k]]

(* json_data.get(key, default) *)
Get(d, key, default) == IF key \in DOMAIN d THEN d[key] ELSE default

----------------------------------------------------------------------------
(* Histogram: one iteration of the `for value in sorted_values` loop *)

DefaultTolerance == <<1, 5>>

(* InTolerance with < in place of <= *)
InToleranceStrict(value, bin_mean, tolerance) ==
    QLt(QAbs(QSub(Q(value), bin_mean)), QMul(bin_mean, tolerance))

(* abs(value - bin_mean) <= bin_mean * tolerance *)
InTolerance(value, bin_mean, tolerance) ==
    QLe(QAbs(QSub(Q(value), bin_mean)), QMul(bin_mean, tolerance))

(* index of the first bin passing the tolerance test, 0 when there is none *)
FirstMatch(value, bins, tolerance) ==
    LET hits == {i \in 1..Len(bins) : InTolerance(value, bins[i][1], tolerance)}
    IN  IF hits = {} THEN 0 ELSE CHOOSE i \in hits : \A j \in hits : i <= j

(* MergeBin with line 25 lost: the bin keeps its old max *)
MergeBinStaleMax(b, value) ==
    LET new_count == b[2] + 1
        new_mean == QDiv(QAdd(QMul(b[1], Q(b[2])), Q(value)), Q(new_count))
    IN  <<new_mean, new_count, Min2(b[3], value), b[4]>>

(* MergeBin dividing by the old count instead of new_count *)
MergeBinOldCount(b, value) ==
    LET new_count == b[2] + 1
        new_mean == QDiv(QAdd(QMul(b[1], Q(b[2])), Q(value)), Q(b[2]))
    IN  <<new_mean, new_count, Min2(b[3], value), Max2(b[4], value)>>

(* MergeBin taking the midpoint of the old mean and the value as new mean *)
MergeBinMidpoint(b, value) ==
    LET new_count == b[2] + 1
        new_mean == QDiv(QAdd(b[1], Q(value)), Q(2))
    IN  <<new_mean, new_count, Min2(b[3], value), Max2(b[4], value)>>

MergeBin(b, value) ==
    LET new_count == b[2] + 1
        new_mean == QDiv(QAdd(QMul(b[1], Q(b[2])), Q(value)), Q(new_count))
    IN  <<new_mean, new_count, Min2(b[3], value), Max2(b[4], value)>>

HistStep(bins, value, tolerance) ==
    LET i == FirstMatch(value, bins, tolerance)
    IN  IF i # 0
        THEN [bins EXCEPT ![i] = MergeBin(bins[i], value)]
        ELSE Append(bins, <<Q(value), 1, value, value>>)

RECURSIVE HistLoopAll(_, _, _)
HistLoopAll(bins, vals, tolerance) ==
    IF vals = <<>> THEN bins
    ELSE HistLoopAll(HistStep(bins, Head(vals), tolerance), Tail(vals), tolerance)

(* PulseDataAnalyzer._create_histogram: bins in creation order *)
AnalyzerHistogram(values) ==
    IF values = <<>> THEN <<>>
    ELSE HistLoopAll(<<>>, Sorted(values), DefaultTolerance)

(* create_histogram: the same loop, then bins.sort by mean *)
CreateHistogram(values, tolerance) ==
    IF values = <<>> THEN <<>>
    ELSE SortByMean(HistLoopAll(<<>>, Sorted(values), tolerance))

(* find_timing_bin_index: 0-based index of the first match, -1 for none *)
FindTimingBinIndex(value, timing_bins) ==
    FirstMatch(value, timing_bins, DefaultTolerance) - 1

----------------------------------------------------------------------------
(* Hex formatting: f"{n:02X}", f"{n:04X}" as sequences of characters *)

HexDigit == <<"0", "1", "2", "3", "4", "5", "6", "7",
              "8", "9", "A", "B", "C", "D", "E", "F">>

RECURSIVE HexOf(_)
HexOf(n) == IF n < 16 THEN <<HexDigit[n + 1]>>
            ELSE HexOf(n \div 16) \o <<HexDigit[(n % 16) + 1]>>

RECURSIVE ZeroPad(_, _)
ZeroPad(s, width) == IF Len(s) >= width THEN s ELSE ZeroPad(<<"0">> \o s, width)

(* FormatX without the zero padding: the format spec X instead of 04X *)
FormatXNoPad(n, width) ==
    IF n < 0 THEN <<"-">> \o HexOf(-n) ELSE HexOf(n)

(* zero padding goes after the sign; the sign counts in the width *)
FormatX(n, width) ==
    IF n < 0 THEN <<"-">> \o ZeroPad(HexOf(-n), width - 1)
    ELSE ZeroPad(HexOf(n), width)

RECURSIVE Join(_)
Join(parts) == IF parts = <<>> THEN <<>> ELSE Head(parts) \o Join(Tail(parts))

(* a | b on non-negative integers *)
RECURSIVE BitOr(_, _)
BitOr(a, b) ==
    IF a = 0 THEN b
    ELSE IF b = 0 THEN a
    ELSE 2 * BitOr(a \div 2, b \div 2) + (IF a % 2 = 1 \/ b % 2 = 1 THEN 1 ELSE 0)

RECURSIVE Pow2(_)
Pow2(k) == IF k = 0 THEN 1 ELSE 2 * Pow2(k - 1)

(* a << k *)
ShiftLeft(a, k) == a * Pow2(k)

----------------------------------------------------------------------------
(* Encoder helpers: generate_rfraw_from_rabbitmq *)

USHRT_MAX == 65535
MaxTimings == 8
DefaultRate == 250000

(* ToUs with the numerator of to_ms: 1e3 in place of 1e6 *)
ToUsFromMillis(rate_hz) == Norm(1000, rate_hz)

(* to_us = 1e6 / rate_hz, for rate_hz # 0 *)
ToUs(rate_hz) == Norm(1000000, rate_hz)

(* the split loop of lines 66-70 *)
PulseWidths(pulses) == [k \in 1..((Len(pulses) + 1) \div 2) |-> pulses[2 * k - 1]]
GapWidths(pulses) == [k \in 1..(Len(pulses) \div 2) |-> pulses[2 * k]]

(* one entry of the timing table, lines 91-94 *)
TimingEntry(timing, to_us) ==
    LET timing_us == PyInt(QMul(timing, to_us))
    IN  FormatX(Min2(timing_us, USHRT_MAX), 4)

TimingTable(timing_bins, to_us) ==
    [k \in 1..Len(timing_bins) |-> TimingEntry(timing_bins[k][1], to_us)]

(* EncodePair with the pulse index shifted by 5 bits instead of 4 *)
EncodePairShiftFive(parts, i, pulse_widths, gap_widths, timing_bins) ==
    LET pulse == pulse_widths[i]
        gap == IF i <= Len(gap_widths) THEN gap_widths[i] ELSE 0
        pulse_idx == FindTimingBinIndex(pulse, timing_bins)
        gap_idx == FindTimingBinIndex(gap, timing_bins)
    IN  IF pulse_idx >= 0 /\ gap_idx >= 0
        THEN Append(parts, FormatX(BitOr(BitOr(128, ShiftLeft(pulse_idx, 5)), gap_idx), 2))
        ELSE parts

(* one iteration of the `Encode pulses` loop, lines 97-106; i is 1-based *)
EncodePair(parts, i, pulse_widths, gap_widths, timing_bins) ==
    LET pulse == pulse_widths[i]
        gap == IF i <= Len(gap_widths) THEN gap_widths[i] ELSE 0
        pulse_idx == FindTimingBinIndex(pulse, timing_bins)
        gap_idx == FindTimingBinIndex(gap, timing_bins)
    IN  IF pulse_idx >= 0 /\ gap_idx >= 0
        THEN Append(parts, FormatX(BitOr(BitOr(128, ShiftLeft(pulse_idx, 4)), gap_idx), 2))
        ELSE parts

----------------------------------------------------------------------------
(* Analyzer helpers: PulseDataAnalyzer *)

(* to_ms = 1e3 / sample_rate, for sample_rate # 0 *)
ToMs(rate_hz) == Norm(1000, rate_hz)

(* lines 47-49: pulse + gap periods *)
Periods(pulse_widths, gap_widths) ==
    [k \in 1..Min2(Len(pulse_widths), Len(gap_widths)) |-> pulse_widths[k] + gap_widths[k]]

(* SuggestFlexDecoder with line 182 lost: no sort of the pulse bins by count *)
SuggestFlexDecoderNoCountSort(modulation, pulse_bins0, gap_bins0, has_sync, to_us) ==
    IF pulse_bins0 = <<>>
    THEN [flex |-> <<>>, pulse_bins |-> pulse_bins0, gap_bins |-> gap_bins0]
    ELSE
    LET pb == SortByMean(pulse_bins0)
        gb == SortByMean(gap_bins0)
    IN  IF modulation = "OOK_PPM"
        THEN LET short_width == QMul(gb[1][1], to_us)
                 long_width == IF Len(gb) > 1 THEN QMul(gb[2][1], to_us)
                               ELSE QMul(short_width, Q(2))
                 gap_limit == QAdd(long_width, Q(100))
                 reset_limit == QAdd(QMul(Q(gb[Len(gb)][3]), to_us), Q(100))
             IN  [flex |-> <<[modulation |-> modulation,
                              short_width |-> short_width,
                              long_width |-> long_width,
                              gap_limit |-> gap_limit,
                              reset_limit |-> reset_limit]>>,
                  pulse_bins |-> pb, gap_bins |-> gb]
        ELSE LET sync == has_sync /\ Len(pb) >= 3
                 pc2 == pb
                 p1 == QMul(pc2[2][1], to_us)
                 p2 == QMul(pc2[3][1], to_us)
                 first == QMul(pc2[1][1], to_us)
                 short_width == IF sync THEN QMin(p1, p2) ELSE first
                 long_width == IF sync THEN QMax(p1, p2)
                               ELSE IF Len(pc2) > 1 THEN p1
                               ELSE QMul(short_width, Q(2))
                 sync_width == IF sync THEN first ELSE Q(0)
                 reset_limit == IF gb # <<>>
                                THEN QAdd(QMul(Q(gb[Len(gb)][3]), to_us), Q(100))
                                ELSE Q(10000)
                 tolerance == QMul(QAbs(QSub(long_width, short_width)), <<2, 5>>)
             IN  [flex |-> <<[modulation |-> modulation,
                              short_width |-> short_width,
                              long_width |-> long_width,
                              reset_limit |-> reset_limit,
                              tolerance |-> tolerance,
                              sync_width |-> sync_width,
                              has_sync |-> has_sync]>>,
                  pulse_bins |-> pc2, gap_bins |-> gb]

(* _suggest_flex_decoder; returns the printed parameters (a list of zero   *)
(* or one record) and the two bin lists as the in-place sorts leave them   *)
SuggestFlexDecoder(modulation, pulse_bins0, gap_bins0, has_sync, to_us) ==
    IF pulse_bins0 = <<>>
    THEN [flex |-> <<>>, pulse_bins |-> pulse_bins0, gap_bins |-> gap_bins0]
    ELSE
    LET pb == SortByMean(pulse_bins0)
        gb == SortByMean(gap_bins0)
    IN  IF modulation = "OOK_PPM"
        THEN LET short_width == QMul(gb[1][1], to_us)
                 long_width == IF Len(gb) > 1 THEN QMul(gb[2][1], to_us)
                               ELSE QMul(short_width, Q(2))
                 gap_limit == QAdd(long_width, Q(100))
                 reset_limit == QAdd(QMul(Q(gb[Len(gb)][3]), to_us), Q(100))
             IN  [flex |-> <<[modulation |-> modulation,
                              short_width |-> short_width,
                              long_width |-> long_width,
                              gap_limit |-> gap_limit,
                              reset_limit |-> reset_limit]>>,
                  pulse_bins |-> pb, gap_bins |-> gb]
        ELSE LET sync == has_sync /\ Len(pb) >= 3
                 pc2 == IF sync THEN SortByCount(pb) ELSE pb
                 p1 == QMul(pc2[2][1], to_us)
                 p2 == QMul(pc2[3][1], to_us)
                 first == QMul(pc2[1][1], to_us)
                 short_width == IF sync THEN QMin(p1, p2) ELSE first
                 long_width == IF sync THEN QMax(p1, p2)
                               ELSE IF Len(pc2) > 1 THEN p1
                               ELSE QMul(short_width, Q(2))
                 sync_width == IF sync THEN first ELSE Q(0)
                 reset_limit == IF gb # <<>>
                                THEN QAdd(QMul(Q(gb[Len(gb)][3]), to_us), Q(100))
                                ELSE Q(10000)
                 tolerance == QMul(QAbs(QSub(long_width, short_width)), <<2, 5>>)
             IN  [flex |-> <<[modulation |-> modulation,
                              short_width |-> short_width,
                              long_width |-> long_width,
                              reset_limit |-> reset_limit,
                              tolerance |-> tolerance,
                              sync_width |-> sync_width,
                              has_sync |-> has_sync]>>,
                  pulse_bins |-> pc2, gap_bins |-> gb]

NoFlex(pulse_bins0, gap_bins0) ==
    [flex |-> <<>>, pulse_bins |-> pulse_bins0, gap_bins |-> gap_bins0]

(* GuessModulation with the first two tests in the other order: the        *)
(* un-modulated test comes before the single-pulse test                    *)
GuessModulationUnmodulatedFirst(pulse_widths, pulse_bins0, gap_bins0, to_us) ==
    LET pulse_count == Len(pulse_bins0)
        gap_count == Len(gap_bins0)
        num_pulses == Len(pulse_widths)
    IN  IF pulse_count = 1 /\ gap_count = 1
        THEN [guess |-> "Unmodulated"] @@ NoFlex(pulse_bins0, gap_bins0)
        ELSE IF num_pulses = 1
        THEN [guess |-> "SinglePulse"] @@ NoFlex(pulse_bins0, gap_bins0)
        ELSE IF pulse_count = 1 /\ gap_count > 1
        THEN [guess |-> "PpmFixedPulse"]
             @@ SuggestFlexDecoder("OOK_PPM", pulse_bins0, gap_bins0, FALSE, to_us)
        ELSE IF pulse_count = 2 /\ gap_count = 1
        THEN [guess |-> "PwmFixedGap"]
             @@ SuggestFlexDecoder("OOK_PWM", pulse_bins0, gap_bins0, FALSE, to_us)
        ELSE IF pulse_count = 2 /\ gap_count = 2
        THEN [guess |-> "PwmFixedPeriod"]
             @@ SuggestFlexDecoder("OOK_PWM", pulse_bins0, gap_bins0, FALSE, to_us)
        ELSE IF pulse_count = 3
        THEN [guess |-> "PwmWithSync"]
             @@ SuggestFlexDecoder("OOK_PWM", pulse_bins0, gap_bins0, TRUE, to_us)
        ELSE [guess |-> "Unknown"] @@ NoFlex(pulse_bins0, gap_bins0)

(* GuessModulation with the un-modulated branch calling the deriver as well *)
GuessModulationDerivesUnmodulated(pulse_widths, pulse_bins0, gap_bins0, to_us) ==
    LET pulse_count == Len(pulse_bins0)
        gap_count == Len(gap_bins0)
        num_pulses == Len(pulse_widths)
    IN  IF num_pulses = 1
        THEN [guess |-> "SinglePulse"] @@ NoFlex(pulse_bins0, gap_bins0)
        ELSE IF pulse_count = 1 /\ gap_count = 1
        THEN [guess |-> "Unmodulated"]
             @@ SuggestFlexDecoder("OOK_PPM", pulse_bins0, gap_bins0, FALSE, to_us)
        ELSE IF pulse_count = 1 /\ gap_count > 1
        THEN [guess |-> "PpmFixedPulse"]
             @@ SuggestFlexDecoder("OOK_PPM", pulse_bins0, gap_bins0, FALSE, to_us)
        ELSE IF pulse_count = 2 /\ gap_count = 1
        THEN [guess |-> "PwmFixedGap"]
             @@ SuggestFlexDecoder("OOK_PWM", pulse_bins0, gap_bins0, FALSE, to_us)
        ELSE IF pulse_count = 2 /\ gap_count = 2
        THEN [guess |-> "PwmFixedPeriod"]
             @@ SuggestFlexDecoder("OOK_PWM", pulse_bins0, gap_bins0, FALSE, to_us)
        ELSE IF pulse_count = 3
        THEN [guess |-> "PwmWithSync"]
             @@ SuggestFlexDecoder("OOK_PWM", pulse_bins0, gap_bins0, TRUE, to_us)
        ELSE [guess |-> "Unknown"] @@ NoFlex(pulse_bins0, gap_bins0)

(* GuessModulation with the last branch calling the deriver as well *)
GuessModulationDerivesUnknown(pulse_widths, pulse_bins0, gap_bins0, to_us) ==
    LET pulse_count == Len(pulse_bins0)
        gap_count == Len(gap_bins0)
        num_pulses == Len(pulse_widths)
    IN  IF num_pulses = 1
        THEN [guess |-> "SinglePulse"] @@ NoFlex(pulse_bins0, gap_bins0)
        ELSE IF pulse_count = 1 /\ gap_count = 1
        THEN [guess |-> "Unmodulated"] @@ NoFlex(pulse_bins0, gap_bins0)
        ELSE IF pulse_count = 1 /\ gap_count > 1
        THEN [guess |-> "PpmFixedPulse"]
             @@ SuggestFlexDecoder("OOK_PPM", pulse_bins0, gap_bins0, FALSE, to_us)
        ELSE IF pulse_count = 2 /\ gap_count = 1
        THEN [guess |-> "PwmFixedGap"]
             @@ SuggestFlexDecoder("OOK_PWM", pulse_bins0, gap_bins0, FALSE, to_us)
        ELSE IF pulse_count = 2 /\ gap_count = 2
        THEN [guess |-> "PwmFixedPeriod"]
             @@ SuggestFlexDecoder("OOK_PWM", pulse_bins0, gap_bins0, FALSE, to_us)
        ELSE IF pulse_count = 3
        THEN [guess |-> "PwmWithSync"]
             @@ SuggestFlexDecoder("OOK_PWM", pulse_bins0, gap_bins0, TRUE, to_us)
        ELSE [guess |-> "Unknown"]
             @@ SuggestFlexDecoder("OOK_PWM", pulse_bins0, gap_bins0, FALSE, to_us)

(* _guess_modulation after its two histograms, lines 132-159.  The verdict *)
(* names stand for the printed messages:                                   *)
(*   SinglePulse     "Single pulse detected. ..."                          *)
(*   Unmodulated     "Un-modulated signal. Maybe a preamble..."            *)
(*   PpmFixedPulse   "Pulse Position Modulation with fixed pulse width"    *)
(*   PwmFixedGap     "Pulse Width Modulation with fixed gap"               *)
(*   PwmFixedPeriod  "Pulse Width Modulation with fixed period"            *)
(*   PwmWithSync     "Pulse Width Modulation with sync/delimiter"          *)
(*   Unknown         "No clue..."                                          *)
GuessModulation(pulse_widths, pulse_bins0, gap_bins0, to_us) ==
    LET pulse_count == Len(pulse_bins0)
        gap_count == Len(gap_bins0)
        num_pulses == Len(pulse_widths)
    IN  IF num_pulses = 1
        THEN [guess |-> "SinglePulse"] @@ NoFlex(pulse_bins0, gap_bins0)
        ELSE IF pulse_count = 1 /\ gap_count = 1
        THEN [guess |-> "Unmodulated"] @@ NoFlex(pulse_bins0, gap_bins0)
        ELSE IF pulse_count = 1 /\ gap_count > 1
        THEN [guess |-> "PpmFixedPulse"]
             @@ SuggestFlexDecoder("OOK_PPM", pulse_bins0, gap_bins0, FALSE, to_us)
        ELSE IF pulse_count = 2 /\ gap_count = 1
        THEN [guess |-> "PwmFixedGap"]
             @@ SuggestFlexDecoder("OOK_PWM", pulse_bins0, gap_bins0, FALSE, to_us)
        ELSE IF pulse_count = 2 /\ gap_count = 2
        THEN [guess |-> "PwmFixedPeriod"]
             @@ SuggestFlexDecoder("OOK_PWM", pulse_bins0, gap_bins0, FALSE, to_us)
        ELSE IF pulse_count = 3
        THEN [guess |-> "PwmWithSync"]
             @@ SuggestFlexDecoder("OOK_PWM", pulse_bins0, gap_bins0, TRUE, to_us)
        ELSE [guess |-> "Unknown"] @@ NoFlex(pulse_bins0, gap_bins0)

(* _generate_rfraw, lines 206-218: <<>> when nothing is printed *)
GenerateRfraw(pulses, to_us) ==
    IF Len(pulses) > 16 THEN <<>>
    ELSE <<[k \in 1..Len(pulses) |-> PyInt(QMul(Q(pulses[k]), to_us))]>>

----------------------------------------------------------------------------
(* Input records *)

RECURSIVE LadderVal(_)
LadderVal(i) == IF i = 1 THEN 1
                ELSE LET p == LadderVal(i - 1) IN p + (p \div 4) + 1

(* k values, each outside the tolerance band of every other, whichever of  *)
(* the two is taken as the mean: 1, 2, 3, 4, 6, 8, 11, 14, 18, ...         *)
Ladder(k) == [i \in 1..k |-> LadderVal(i)]

RECURSIVE SumSeq(_)
SumSeq(s) == IF s = <<>> THEN 0 ELSE Head(s) + SumSeq(Tail(s))

(* k values, each just inside the tolerance band of the mean of the ones  *)
(* before it: one cluster whose mean creeps upward                         *)
RECURSIVE Creep(_)
Creep(k) == IF k = 1 THEN <<100>>
            ELSE LET s == Creep(k - 1)
                 IN  Append(s, (6 * SumSeq(s) - 1) \div (5 * (k - 1)))

Bases == UNION {[1..n -> Durations] : n \in 0..MaxBase}
Tails == {Ladder(k) : k \in 0..MaxLadder} \cup {Creep(k) : k \in 1..MaxCreep}
Trains == {b \o t : b \in Bases, t \in Tails}

KeySets == {{"pulses", "rate_Hz"}, {"pulses"}, {"rate_Hz"}}

(* A JSON number of a metadata field keeps its Python type: json.loads     *)
(* gives an int for 433920000 and a float for 433920000.0                  *)
JInt(n) == [int |-> n]
JFloat(q) == [float |-> q]
IsInt(x) == DOMAIN x = {"int"}
Truthy(x) == IF IsInt(x) THEN x.int # 0 ELSE x.float[1] # 0

(* the reporting fields of a record as rtl_433 sends it *)
Meta == [mod |-> "OOK", count |-> JInt(1),
         ook_high |-> JInt(15000), ook_low |-> JInt(200),
         rssi_dB |-> JFloat(<<-76, 5>>), snr_dB |-> JFloat(<<64, 5>>),
         noise_dB |-> JFloat(<<-28, 1>>),
         freq1_Hz |-> JInt(433942688), freq_Hz |-> JInt(433920000)]

(* the same fields with other values; the centre frequency is written as   *)
(* the JSON number 433920000.0                                             *)
MetaFloatFreq == [mod |-> "FSK", count |-> JInt(7),
                  ook_high |-> JInt(9000), ook_low |-> JInt(100),
                  rssi_dB |-> JInt(-3), snr_dB |-> JFloat(<<21, 2>>),
                  noise_dB |-> JFloat(<<-27, 2>>),
                  freq1_Hz |-> JInt(433942688),
                  freq_Hz |-> JFloat(<<433920000, 1>>)]

Metas == {Meta, MetaFloatFreq}

(* trains sent with reporting fields *)
MetaTrains == {Ladder(k) : k \in 0..MaxLadder}

Inputs == {[k \in K |-> IF k = "pulses" THEN p ELSE r] :
              K \in KeySets, p \in Trains, r \in Rates}
          \cup {m @@ [pulses |-> p] : m \in Metas, p \in MetaTrains}

----------------------------------------------------------------------------
(* State *)

VARIABLES
    json_data,       \* the input record (a JSON object)
    pc,              \* position of the running call, "idle" between calls
    sorted_values,   \* histogram loop: values not yet processed
    bins,            \* histogram loop: bins built so far
    tolerance,       \* histogram loop: the tolerance of the running call
    timing_bins,     \* encoder: the sorted timing table
    hex_parts,       \* encoder: parts of the frame written so far
    enc_i,           \* encoder: index of the next pulse/gap pair (1-based)
    rfraw,           \* encoder: what the last call returned
    self,            \* the PulseDataAnalyzer object, <<>> before construction
    pulse_bins,      \* _guess_modulation: histogram of the pulse widths
    gap_bins,        \* _guess_modulation: histogram of the gap widths
    out,             \* what the last analyze() run printed
    other            \* the frame and objects of a second, suspended thread

enc_vars == <<timing_bins, hex_parts, enc_i, rfraw>>
ana_vars == <<self, pulse_bins, gap_bins, out>>
hist_vars == <<sorted_values, bins, tolerance>>
thread_vars == <<json_data, pc, sorted_values, bins, tolerance, timing_bins, hex_parts,
                 enc_i, rfraw, self, pulse_bins, gap_bins, out>>
vars == <<json_data, pc, sorted_values, bins, tolerance, timing_bins, hex_parts, enc_i,
          rfraw, self, pulse_bins, gap_bins, out, other>>

NotCalled == [kind |-> "not_called", hex |-> <<>>]
ReturnedNone == [kind |-> "None", hex |-> <<>>]
Raised == [kind |-> "ZeroDivisionError", hex |-> <<>>]
Frame(h) == [kind |-> "frame", hex |-> h]

NoOutput == [error |-> "", sections |-> {}, pulse |-> <<>>, gap |-> <<>>,
             period |-> <<>>, guess |-> "", flex |-> <<>>, timings |-> <<>>]

Pulses == Get(json_data, "pulses", <<>>)
RateHz == Get(json_data, "rate_Hz", DefaultRate)

Init ==
    /\ json_data \in Inputs
    /\ pc = "idle"
    /\ sorted_values = <<>>
    /\ bins = <<>>
    /\ tolerance = DefaultTolerance
    /\ timing_bins = <<>>
    /\ hex_parts = <<>>
    /\ enc_i = 1
    /\ rfraw = NotCalled
    /\ self = <<>>
    /\ pulse_bins = <<>>
    /\ gap_bins = <<>>
    /\ out = NoOutput
    /\ other = <<>>

----------------------------------------------------------------------------
(* The histogram loop, shared by every call of create_histogram and        *)
(* _create_histogram; pc names the call site that is waiting for it        *)

HistSites == {"H_hist", "E_hist", "A_guess_pulse", "A_guess_gap"}

HistLoop ==
    /\ pc \in HistSites
    /\ sorted_values # <<>>
    /\ bins' = HistStep(bins, Head(sorted_values), tolerance)
    /\ sorted_values' = Tail(sorted_values)
    /\ UNCHANGED <<json_data, other, pc, tolerance, enc_vars, ana_vars>>

(* create_histogram(values, tolerance) called on its own, lines 10-16 *)
H_Call ==
    /\ pc = "idle"
    /\ \E tol \in Tolerances : tolerance' = tol
    /\ bins' = <<>>
    /\ IF Pulses = <<>>
       THEN /\ sorted_values' = <<>>
            /\ pc' = "H_done"
       ELSE /\ sorted_values' = Sorted(Pulses)
            /\ pc' = "H_hist"
    /\ UNCHANGED <<json_data, other, enc_vars, ana_vars>>

(* lines 33-34: sort by mean and return *)
H_Return ==
    /\ pc = "H_hist"
    /\ sorted_values = <<>>
    /\ bins' = SortByMean(bins)
    /\ pc' = "H_done"
    /\ UNCHANGED <<json_data, other, sorted_values, tolerance, enc_vars, ana_vars>>

----------------------------------------------------------------------------
(* generate_rfraw_from_rabbitmq *)

(* E_Call with line 14 lost: create_histogram goes on with the bin list   *)
(* the histogram before it left behind                                     *)
E_CallKeepsBins ==
    /\ pc = "idle"
    /\ timing_bins' = <<>>
    /\ hex_parts' = <<>>
    /\ enc_i' = 1
    /\ bins' = bins
    /\ tolerance' = DefaultTolerance
    /\ IF Len(Pulses) < 2
       THEN /\ rfraw' = ReturnedNone
            /\ pc' = "idle"
            /\ sorted_values' = <<>>
       ELSE IF RateHz = 0
       THEN /\ rfraw' = Raised
            /\ pc' = "idle"
            /\ sorted_values' = <<>>
       ELSE /\ rfraw' = NotCalled
            /\ pc' = "E_hist"
            /\ sorted_values' = Sorted(PulseWidths(Pulses) \o GapWidths(Pulses))
    /\ UNCHANGED <<json_data, other, ana_vars>>

(* lines 47-74: input check, to_us, split, entry of create_histogram *)
E_Call ==
    /\ pc = "idle"
    /\ timing_bins' = <<>>
    /\ hex_parts' = <<>>
    /\ enc_i' = 1
    /\ bins' = <<>>
    /\ tolerance' = DefaultTolerance
    /\ IF Len(Pulses) < 2
       THEN /\ rfraw' = ReturnedNone
            /\ pc' = "idle"
            /\ sorted_values' = <<>>
       ELSE IF RateHz = 0
       THEN /\ rfraw' = Raised
            /\ pc' = "idle"
            /\ sorted_values' = <<>>
       ELSE /\ rfraw' = NotCalled
            /\ pc' = "E_hist"
            /\ sorted_values' = Sorted(PulseWidths(Pulses) \o GapWidths(Pulses))
    /\ UNCHANGED <<json_data, other, ana_vars>>

(* E_Table with the size check off by one: >= 8 instead of > 8 *)
E_TableRejectsEight ==
    /\ pc = "E_hist"
    /\ sorted_values = <<>>
    /\ LET tb == SortByMean(bins)
       IN  /\ timing_bins' = tb
           /\ IF Len(tb) >= MaxTimings
              THEN /\ rfraw' = ReturnedNone
                   /\ pc' = "idle"
                   /\ hex_parts' = hex_parts
              ELSE /\ hex_parts' = <<<<"A", "A">>, <<"B", "1">>, FormatX(Len(tb), 2)>>
                                       \o TimingTable(tb, ToUs(RateHz))
                   /\ pc' = "E_encode"
                   /\ rfraw' = rfraw
    /\ UNCHANGED <<json_data, other, hist_vars, enc_i, ana_vars>>

(* lines 33-34 and 74-94: sort by mean, size check, header, timing table *)
E_Table ==
    /\ pc = "E_hist"
    /\ sorted_values = <<>>
    /\ LET tb == SortByMean(bins)
       IN  /\ timing_bins' = tb
           /\ IF Len(tb) > MaxTimings
              THEN /\ rfraw' = ReturnedNone
                   /\ pc' = "idle"
                   /\ hex_parts' = hex_parts
              ELSE /\ hex_parts' = <<<<"A", "A">>, <<"B", "1">>, FormatX(Len(tb), 2)>>
                                       \o TimingTable(tb, ToUs(RateHz))
                   /\ pc' = "E_encode"
                   /\ rfraw' = rfraw
    /\ UNCHANGED <<json_data, other, hist_vars, enc_i, ana_vars>>

(* lines 97-106: one pulse/gap pair *)
E_Encode ==
    /\ pc = "E_encode"
    /\ enc_i <= Len(PulseWidths(Pulses))
    /\ hex_parts' = EncodePair(hex_parts, enc_i, PulseWidths(Pulses),
                               GapWidths(Pulses), timing_bins)
    /\ enc_i' = enc_i + 1
    /\ UNCHANGED <<json_data, other, pc, hist_vars, timing_bins, rfraw, ana_vars>>

(* lines 108-116: end byte, join, return *)
E_Return ==
    /\ pc = "E_encode"
    /\ enc_i > Len(PulseWidths(Pulses))
    /\ hex_parts' = Append(hex_parts, <<"5", "5">>)
    /\ rfraw' = Frame(Join(hex_parts'))
    /\ pc' = "idle"
    /\ UNCHANGED <<json_data, other, hist_vars, timing_bins, enc_i, ana_vars>>

----------------------------------------------------------------------------
(* PulseDataAnalyzer *)

Constructed == DOMAIN self # {}

(* __init__, lines 12-17; the division raises when rate_Hz is 0 *)
A_Construct ==
    /\ pc = "idle"
    /\ ~Constructed
    /\ IF RateHz = 0
       THEN /\ out' = [NoOutput EXCEPT !.error = "ZeroDivisionError"]
            /\ self' = self
       ELSE /\ self' = [data |-> json_data,
                        sample_rate |-> RateHz,
                        to_us |-> ToUs(RateHz),
                        to_ms |-> ToMs(RateHz),
                        TOLERANCE |-> DefaultTolerance]
            /\ out' = out
    /\ UNCHANGED <<json_data, other, pc, hist_vars, enc_vars, pulse_bins, gap_bins>>

SelfPulses == Get(self.data, "pulses", <<>>)

(* A_Analyze with the length check of line 22 weakened to len(pulses) < 1 *)
A_AnalyzeAcceptsOne ==
    /\ pc = "idle"
    /\ Constructed
    /\ pulse_bins' = <<>>
    /\ gap_bins' = <<>>
    /\ IF Len(SelfPulses) < 1
       THEN /\ out' = [NoOutput EXCEPT !.error = "Need at least pulse and gap data"]
            /\ pc' = "idle"
       ELSE /\ out' = [NoOutput EXCEPT !.sections = {"total"}]
            /\ pc' = "A_pulse_dist"
    /\ UNCHANGED <<json_data, other, hist_vars, enc_vars, self>>

(* analyze, lines 21-40: input check, split, total *)
A_Analyze ==
    /\ pc = "idle"
    /\ Constructed
    /\ pulse_bins' = <<>>
    /\ gap_bins' = <<>>
    /\ IF Len(SelfPulses) < 2
       THEN /\ out' = [NoOutput EXCEPT !.error = "Need at least pulse and gap data"]
            /\ pc' = "idle"
       ELSE /\ out' = [NoOutput EXCEPT !.sections = {"total"}]
            /\ pc' = "A_pulse_dist"
    /\ UNCHANGED <<json_data, other, hist_vars, enc_vars, self>>

(* line 43: _analyze_distribution("Pulse width", pulse_widths), lines 74-94 *)
A_PulseDist ==
    /\ pc = "A_pulse_dist"
    /\ out' = [out EXCEPT !.pulse = AnalyzerHistogram(EvenIdx(SelfPulses)),
                          !.sections = @ \cup {"pulse"}]
    /\ pc' = "A_gap_dist"
    /\ UNCHANGED <<json_data, other, hist_vars, enc_vars, self, pulse_bins, gap_bins>>

(* line 44: _analyze_distribution("Gap width", gap_widths) *)
A_GapDist ==
    /\ pc = "A_gap_dist"
    /\ out' = [out EXCEPT !.gap = AnalyzerHistogram(OddIdx(SelfPulses)),
                          !.sections = @ \cup {"gap"}]
    /\ pc' = "A_period_dist"
    /\ UNCHANGED <<json_data, other, hist_vars, enc_vars, self, pulse_bins, gap_bins>>

(* lines 46-50: _analyze_distribution("Pulse+gap period", periods_pg) *)
A_PeriodDist ==
    /\ pc = "A_period_dist"
    /\ out' = [out EXCEPT !.period = AnalyzerHistogram(Periods(EvenIdx(SelfPulses),
                                                               OddIdx(SelfPulses))),
                          !.sections = @ \cup {"period"}]
    /\ pc' = "A_levels"
    /\ UNCHANGED <<json_data, other, hist_vars, enc_vars, self, pulse_bins, gap_bins>>

(* line 54: the format code 6d raises ValueError for a float *)
LevelsRaise(data) ==
    /\ "ook_high" \in DOMAIN data
    /\ "ook_low" \in DOMAIN data
    /\ ~IsInt(data.ook_high) \/ ~IsInt(data.ook_low)

(* lines 63-67: f1_offset = freq1 - freq if freq1 else 0, an int only when *)
(* both are ints; the format code 6d raises ValueError for a float         *)
FreqRaise(data) ==
    LET freq1 == Get(data, "freq1_Hz", JInt(0))
        freq == Get(data, "freq_Hz", JInt(433920000))
    IN  /\ Truthy(freq1)
        /\ ~IsInt(freq1) \/ ~IsInt(freq)

(* lines 52-69 and 129: levels, RSSI/SNR and frequency offsets printed;    *)
(* then _guess_modulation entered, its pulse histogram entered             *)
A_Levels ==
    /\ pc = "A_levels"
    /\ IF LevelsRaise(self.data) \/ FreqRaise(self.data)
       THEN /\ out' = [out EXCEPT !.error = "ValueError"]
            /\ pc' = "idle"
            /\ UNCHANGED hist_vars
       ELSE /\ out' = [out EXCEPT !.sections = @ \cup {"levels"}]
            /\ bins' = <<>>
            /\ tolerance' = self.TOLERANCE
            /\ sorted_values' = Sorted(EvenIdx(SelfPulses))
            /\ pc' = "A_guess_pulse"
    /\ UNCHANGED <<json_data, other, enc_vars, self, pulse_bins, gap_bins>>

(* lines 129-130: pulse_bins assigned, gap histogram entered *)
A_GuessPulse ==
    /\ pc = "A_guess_pulse"
    /\ sorted_values = <<>>
    /\ pulse_bins' = bins
    /\ bins' = <<>>
    /\ sorted_values' = Sorted(OddIdx(SelfPulses))
    /\ pc' = "A_guess_gap"
    /\ UNCHANGED <<json_data, other, tolerance, enc_vars, self, gap_bins, out>>

(* lines 130-159 with the call of _suggest_flex_decoder, lines 161-204 *)
A_GuessModulation ==
    /\ pc = "A_guess_gap"
    /\ sorted_values = <<>>
    /\ LET r == GuessModulation(EvenIdx(SelfPulses), pulse_bins, bins, self.to_us)
       IN  /\ out' = [out EXCEPT !.guess = r.guess, !.flex = r.flex,
                                 !.sections = @ \cup {"guess"}]
           /\ pulse_bins' = r.pulse_bins
           /\ gap_bins' = r.gap_bins
    /\ pc' = "A_rfraw"
    /\ UNCHANGED <<json_data, other, hist_vars, enc_vars, self>>

(* line 72: _generate_rfraw, then analyze returns *)
A_GenerateRfraw ==
    /\ pc = "A_rfraw"
    /\ out' = [out EXCEPT !.timings = GenerateRfraw(SelfPulses, self.to_us),
                          !.sections = @ \cup (IF Len(SelfPulses) > 16 THEN {} ELSE {"rfraw"})]
    /\ pc' = "idle"
    /\ UNCHANGED <<json_data, other, hist_vars, enc_vars, self, pulse_bins, gap_bins>>

----------------------------------------------------------------------------

Next ==
    \/ HistLoop
    \/ E_Call
    \/ E_Table
    \/ E_Encode
    \/ E_Return
    \/ A_Construct
    \/ A_Analyze
    \/ A_PulseDist
    \/ A_GapDist
    \/ A_PeriodDist
    \/ A_Levels
    \/ A_GuessPulse
    \/ A_GuessModulation
    \/ A_GenerateRfraw

Spec == Init /\ [][Next]_vars

----------------------------------------------------------------------------
(* The histogram builder on its own: create_histogram(values, tolerance)   *)
(* for every values list and tolerance drawn                               *)

InitHist ==
    /\ json_data \in {[pulses |-> p] : p \in Trains}
    /\ pc = "idle"
    /\ sorted_values = <<>>
    /\ bins = <<>>
    /\ tolerance = DefaultTolerance
    /\ timing_bins = <<>>
    /\ hex_parts = <<>>
    /\ enc_i = 1
    /\ rfraw = NotCalled
    /\ self = <<>>
    /\ pulse_bins = <<>>
    /\ gap_bins = <<>>
    /\ out = NoOutput
    /\ other = <<>>

NextHist ==
    \/ H_Call
    \/ HistLoop
    \/ H_Return

SpecHist == InitHist /\ [][NextHist]_vars

----------------------------------------------------------------------------
(* A whole call as a function of its argument: what the call returns or    *)
(* prints when it runs from its first line to its last on its own          *)

(* the `Encode pulses` loop, lines 97-106, from pair i on *)
RECURSIVE EncodeAll(_, _, _, _, _)
EncodeAll(parts, i, pulse_widths, gap_widths, tb) ==
    IF i > Len(pulse_widths) THEN parts
    ELSE EncodeAll(EncodePair(parts, i, pulse_widths, gap_widths, tb), i + 1,
                   pulse_widths, gap_widths, tb)

(* generate_rfraw_from_rabbitmq(data), lines 43-116 *)
GenerateRfrawFromRabbitmq(data) ==
    LET pulses == Get(data, "pulses", <<>>)
        rate_hz == Get(data, "rate_Hz", DefaultRate)
        pulse_widths == PulseWidths(pulses)
        gap_widths == GapWidths(pulses)
        tb == CreateHistogram(pulse_widths \o gap_widths, DefaultTolerance)
        header == <<<<"A", "A">>, <<"B", "1">>, FormatX(Len(tb), 2)>>
    IN  IF Len(pulses) < 2 THEN ReturnedNone
        ELSE IF rate_hz = 0 THEN Raised
        ELSE IF Len(tb) > MaxTimings THEN ReturnedNone
        ELSE Frame(Join(Append(EncodeAll(header \o TimingTable(tb, ToUs(rate_hz)), 1,
                                         pulse_widths, gap_widths, tb),
                               <<"5", "5">>)))

(* PulseDataAnalyzer(data), lines 12-17, for rate_Hz other than 0 *)
NewAnalyzer(data) ==
    [data |-> data,
     sample_rate |-> Get(data, "rate_Hz", DefaultRate),
     to_us |-> ToUs(Get(data, "rate_Hz", DefaultRate)),
     to_ms |-> ToMs(Get(data, "rate_Hz", DefaultRate)),
     TOLERANCE |-> DefaultTolerance]

(* what analyzer.analyze() prints, lines 19-72 *)
Analyze(analyzer) ==
    LET pulses == Get(analyzer.data, "pulses", <<>>)
        pulse_widths == EvenIdx(pulses)
        gap_widths == OddIdx(pulses)
        dists == [NoOutput EXCEPT
                    !.pulse = AnalyzerHistogram(pulse_widths),
                    !.gap = AnalyzerHistogram(gap_widths),
                    !.period = AnalyzerHistogram(Periods(pulse_widths, gap_widths)),
                    !.sections = {"total", "pulse", "gap", "period"}]
        r == GuessModulation(pulse_widths, AnalyzerHistogram(pulse_widths),
                             AnalyzerHistogram(gap_widths), analyzer.to_us)
    IN  IF Len(pulses) < 2
        THEN [NoOutput EXCEPT !.error = "Need at least pulse and gap data"]
        ELSE IF LevelsRaise(analyzer.data) \/ FreqRaise(analyzer.data)
        THEN [dists EXCEPT !.error = "ValueError"]
        ELSE [dists EXCEPT
                !.guess = r.guess,
                !.flex = r.flex,
                !.timings = GenerateRfraw(pulses, analyzer.to_us),
                !.sections = @ \cup {"levels", "guess"}
                               \cup (IF Len(pulses) > 16 THEN {} ELSE {"rfraw"})]

----------------------------------------------------------------------------
(* Two threads, each calling the encoder and its own analyzer on its own   *)
(* record.  The locals of a call live in the frame of the thread that made *)
(* it and neither module has a module-level variable, so a thread is its   *)
(* input record, its analyzer object and its frame; `other` holds those of *)
(* the thread that is not running.                                         *)

ParInputs ==
    {[pulses |-> <<5, 6, 5>>],
     [pulses |-> <<5, 1, 1, 2>>, rate_Hz |-> 1000],
     [pulses |-> <<1, 2>>, rate_Hz |-> 0],
     [pulses |-> <<1>>]}

ThreadState(j, p, sv, b, tol, tb, hp, i, r, s, pb, gb, o) ==
    [json_data |-> j, pc |-> p, sorted_values |-> sv, bins |-> b, tolerance |-> tol,
     timing_bins |-> tb, hex_parts |-> hp, enc_i |-> i, rfraw |-> r, self |-> s,
     pulse_bins |-> pb, gap_bins |-> gb, out |-> o]

Fresh(j) ==
    ThreadState(j, "idle", <<>>, <<>>, DefaultTolerance, <<>>, <<>>, 1, NotCalled,
                <<>>, <<>>, <<>>, NoOutput)

InitPar ==
    /\ json_data \in ParInputs
    /\ pc = "idle"
    /\ sorted_values = <<>>
    /\ bins = <<>>
    /\ tolerance = DefaultTolerance
    /\ timing_bins = <<>>
    /\ hex_parts = <<>>
    /\ enc_i = 1
    /\ rfraw = NotCalled
    /\ self = <<>>
    /\ pulse_bins = <<>>
    /\ gap_bins = <<>>
    /\ out = NoOutput
    /\ other \in {Fresh(j) : j \in ParInputs}

(* the scheduler suspends the running thread and resumes the other one *)
Switch ==
    /\ other' = ThreadState(json_data, pc, sorted_values, bins, tolerance, timing_bins,
                            hex_parts, enc_i, rfraw, self, pulse_bins, gap_bins, out)
    /\ json_data' = other.json_data
    /\ pc' = other.pc
    /\ sorted_values' = other.sorted_values
    /\ bins' = other.bins
    /\ tolerance' = other.tolerance
    /\ timing_bins' = other.timing_bins
    /\ hex_parts' = other.hex_parts
    /\ enc_i' = other.enc_i
    /\ rfraw' = other.rfraw
    /\ self' = other.self
    /\ pulse_bins' = other.pulse_bins
    /\ gap_bins' = other.gap_bins
    /\ out' = other.out

NextPar ==
    \/ Switch
    \/ Next

SpecPar == InitPar /\ [][NextPar]_vars

----------------------------------------------------------------------------
(* Properties of the histogram builder *)

(* the values list of the histogram call that is running *)
HistInput ==
    CASE pc \in {"H_hist", "H_done"} -> Pulses
      [] pc = "E_hist" -> PulseWidths(Pulses) \o GapWidths(Pulses)
      [] pc = "A_guess_pulse" -> EvenIdx(SelfPulses)
      [] pc = "A_guess_gap" -> OddIdx(SelfPulses)
      [] OTHER -> <<>>

InHist == pc \in HistSites \cup {"H_done"}

(* the values the loop has consumed so far *)
Processed == SubSeq(Sorted(HistInput), 1, Len(HistInput) - Len(sorted_values))

RECURSIVE SumCounts(_)
SumCounts(bs) == IF bs = <<>> THEN 0 ELSE Head(bs)[2] + SumCounts(Tail(bs))

InRange(v, b) == b[3] <= v /\ v <= b[4]

(* C1: for every tolerance > 0 the bins partition the input values: every  *)
(* bin has count >= 1, the counts sum to the number of values, the values  *)
(* inside a bin's [min, max] are exactly the count merged into it, every   *)
(* value lies in the range of exactly one bin, and an empty input gives an *)
(* empty bin list.  Stated for the values consumed so far, so it holds of  *)
(* the returned bins in particular.                                        *)
C1_EveryValueInExactlyOneBin ==
    (InHist /\ QLt(Q(0), tolerance)) =>
        LET done == Processed
        IN  /\ \A i \in DOMAIN bins : bins[i][2] >= 1
            /\ SumCounts(bins) = Len(done)
            /\ \A i \in DOMAIN bins :
                  /\ bins[i][2] = Cardinality({k \in DOMAIN done : InRange(done[k], bins[i])})
                  /\ \E k \in DOMAIN done : done[k] = bins[i][3]
                  /\ \E k \in DOMAIN done : done[k] = bins[i][4]
            /\ \A k \in DOMAIN done :
                  Cardinality({i \in DOMAIN bins : InRange(done[k], bins[i])}) = 1
            /\ (HistInput = <<>> => bins = <<>>)

(* a returned histogram, at a tolerance other than the default, with       *)
(* several bins of which one merged distinct values                        *)
C1_Witness ==
    /\ pc = "H_done"
    /\ tolerance = <<2, 5>>
    /\ Len(bins) >= 2
    /\ \E i \in DOMAIN bins : bins[i][2] >= 2 /\ bins[i][3] < bins[i][4]

AllBinLists == {bins, timing_bins, pulse_bins, gap_bins, out.pulse, out.gap, out.period}

(* C2: after every step of histogram construction every bin satisfies      *)
(* min <= mean <= max, and so does every bin list handed on afterwards     *)
C2_MinMeanMax ==
    \A bs \in AllBinLists : \A i \in DOMAIN bs :
        QLe(Q(bs[i][3]), bs[i][1]) /\ QLe(bs[i][1], Q(bs[i][4]))

(* in the middle of a construction, a bin of three or more values whose    *)
(* running mean lies strictly between its min and its max                  *)
C2_Witness ==
    /\ pc \in HistSites
    /\ sorted_values # <<>>
    /\ \E i \in DOMAIN bins :
          /\ bins[i][2] >= 3
          /\ QLt(Q(bins[i][3]), bins[i][1])
          /\ QLt(bins[i][1], Q(bins[i][4]))

----------------------------------------------------------------------------
(* Properties of the modulation classifier *)

(* the ordered table of the classifier: condition, verdict *)
VerdictTable(N, P, G) ==
    << <<N = 1, "SinglePulse">>,
       <<P = 1 /\ G = 1, "Unmodulated">>,
       <<P = 1 /\ G > 1, "PpmFixedPulse">>,
       <<P = 2 /\ G = 1, "PwmFixedGap">>,
       <<P = 2 /\ G = 2, "PwmFixedPeriod">>,
       <<P = 3, "PwmWithSync">>,
       <<TRUE, "Unknown">> >>

FirstMatchingRow(N, P, G) ==
    LET t == VerdictTable(N, P, G)
        r == CHOOSE i \in DOMAIN t : t[i][1] /\ \A j \in 1..(i - 1) : ~t[j][1]
    IN  t[r][2]

(* _guess_modulation(pulse_widths, gap_widths) as a function of its arguments *)
VerdictOf(pulse_widths, gap_widths) ==
    GuessModulation(pulse_widths, AnalyzerHistogram(pulse_widths),
                    AnalyzerHistogram(gap_widths), ToUs(DefaultRate)).guess

(* the two worked examples: bin counts and verdicts *)
WorkedExamples ==
    /\ Len(AnalyzerHistogram(<<100, 100, 100>>)) = 1
    /\ Len(AnalyzerHistogram(<<200, 400, 200, 400>>)) = 2
    /\ VerdictOf(<<100, 100, 100>>, <<200, 400, 200, 400>>) = "PpmFixedPulse"
    /\ Len(AnalyzerHistogram(<<100, 200, 100>>)) = 2
    /\ Len(AnalyzerHistogram(<<200, 100, 200>>)) = 2
    /\ VerdictOf(<<100, 200, 100>>, <<200, 100, 200>>) = "PwmFixedPeriod"

NumPulses == Len(EvenIdx(SelfPulses))
NumPulseBins == Len(AnalyzerHistogram(EvenIdx(SelfPulses)))
NumGapBins == Len(AnalyzerHistogram(OddIdx(SelfPulses)))

(* C3: the verdict printed by _guess_modulation is that of the first       *)
(* matching row of the table for N pulse widths, P pulse bins and G gap    *)
(* bins, and the two worked examples classify as PpmFixedPulse (1 pulse    *)
(* bin, 2 gap bins) and PwmFixedPeriod (2 pulse bins, 2 gap bins)          *)
C3_FirstMatchingRowWins ==
    /\ (pc = "A_rfraw" /\ "guess" \in out.sections) =>
          out.guess = FirstMatchingRow(NumPulses, NumPulseBins, NumGapBins)
    /\ pc = "A_rfraw" => WorkedExamples

(* a run with one pulse, one pulse bin and one gap bin: the first row      *)
(* wins over the un-modulated row, which matches as well                   *)
C3_Witness ==
    /\ "guess" \in out.sections
    /\ NumPulses = 1
    /\ NumPulseBins = 1
    /\ NumGapBins = 1
    /\ out.guess = "SinglePulse"

----------------------------------------------------------------------------
(* Properties of the decoder parameters *)

SelfGapBinsByMean == SortByMean(AnalyzerHistogram(OddIdx(SelfPulses)))

(* C4: when decoder parameters are printed, reset_limit is the max         *)
(* duration of the highest-mean gap bin times to_us, plus 100              *)
C4_ResetLimitFromMaxGap ==
    out.flex # <<>> =>
        LET gb == SelfGapBinsByMean
        IN  out.flex[1].reset_limit = QAdd(QMul(Q(gb[Len(gb)][4]), self.to_us), Q(100))

----------------------------------------------------------------------------
(* Properties of the encoder *)

NumTimings == Len(timing_bins)
NumPairs == Len(PulseWidths(Pulses))

(* the parts of a finished frame between the timing table and the end byte *)
SymbolParts == SubSeq(hex_parts, 4 + NumTimings, Len(hex_parts) - 1)
NumSymbols == Len(SymbolParts)

IsHex(c) == \E k \in 1..16 : HexDigit[k] = c
HexVal(c) == (CHOOSE k \in 1..16 : HexDigit[k] = c) - 1
AllHex(h) == \A k \in DOMAIN h : IsHex(h[k])

RECURSIVE HexToNat(_)
HexToNat(h) == IF h = <<>> THEN 0
               ELSE 16 * HexToNat(SubSeq(h, 1, Len(h) - 1)) + HexVal(h[Len(h)])

EncoderReturned == pc = "idle" /\ rfraw.kind # "not_called"

(* C5: a frame is returned only if every duration of the train matches a   *)
(* bin of the timing table, and then no pulse/gap pair of the input is     *)
(* missing from it                                                         *)
C5_UnmatchedTimingFails ==
    rfraw.kind = "frame" =>
        /\ \A k \in DOMAIN Pulses : FindTimingBinIndex(Pulses[k], timing_bins) >= 0
        /\ NumSymbols >= Len(GapWidths(Pulses))

(* C6: for a train of odd length >= 3 the frame has one symbol byte per    *)
(* pulse, the trailing unpaired pulse included                             *)
C6_TrailingPulseEncoded ==
    (rfraw.kind = "frame" /\ Len(Pulses) >= 3 /\ Len(Pulses) % 2 = 1) =>
        NumSymbols = NumPairs

(* the bin a symbol nibble selects holds the duration and has it within    *)
(* tolerance of its mean                                                   *)
SelectsOwnBin(d, idx) ==
    /\ idx + 1 \in DOMAIN timing_bins
    /\ InRange(d, timing_bins[idx + 1])
    /\ InTolerance(d, timing_bins[idx + 1][1], DefaultTolerance)

(* C7: for every pulse and every gap of an encoded train, the index in the *)
(* symbol byte of its pair selects the bin the duration was merged into,   *)
(* and the duration is within 0.2 * mean of that bin's mean                *)
C7_IndexSelectsOwnBin ==
    rfraw.kind = "frame" =>
        \A i \in 1..NumPairs :
            /\ i <= NumSymbols
            /\ AllHex(SymbolParts[i])
            /\ SelectsOwnBin(PulseWidths(Pulses)[i], HexVal(SymbolParts[i][1]) - 8)
            /\ i <= Len(GapWidths(Pulses)) =>
                  SelectsOwnBin(GapWidths(Pulses)[i], HexVal(SymbolParts[i][2]))

AllTimings == PulseWidths(Pulses) \o GapWidths(Pulses)
NumClusters == Len(CreateHistogram(AllTimings, DefaultTolerance))

Separated(a, b) == 5 * Abs(a - b) > a /\ 5 * Abs(a - b) > b
DistinctTimings == {AllTimings[k] : k \in DOMAIN AllTimings}
MutuallySeparated == \A a, b \in DistinctTimings : a # b => Separated(a, b)

(* C8 as stated: for a train of length >= 2 the encoder returns no frame   *)
(* exactly when the combined histogram has more than 8 bins                *)
C8_NoFrameIffMoreThanEightBins ==
    (EncoderReturned /\ Len(Pulses) >= 2) =>
        (rfraw.kind # "frame" <=> NumClusters > 8)

(* C8 as amended: for a train of length >= 2 and a sample rate other than  *)
(* zero, the encoder returns None exactly when the combined histogram has  *)
(* more than 8 bins and a frame otherwise; nine or more mutually separated *)
(* durations are rejected                                                  *)
C8_NonZeroRateNoFrameIffMoreThanEightBins ==
    (EncoderReturned /\ Len(Pulses) >= 2 /\ RateHz # 0) =>
        /\ rfraw.kind = "None" <=> NumClusters > 8
        /\ rfraw.kind = "frame" <=> NumClusters <= 8
        /\ (MutuallySeparated /\ Cardinality(DistinctTimings) >= 9) => rfraw.kind = "None"

(* a train of nine mutually separated durations, rejected *)
C8_Witness ==
    /\ EncoderReturned
    /\ RateHz # 0
    /\ MutuallySeparated
    /\ Cardinality(DistinctTimings) = 9
    /\ NumTimings = 9
    /\ rfraw.kind = "None"

(* the symbol byte the lookup gives for pair i, <<>> when it writes none *)
ExpectedSymbol(i) ==
    LET p == FindTimingBinIndex(PulseWidths(Pulses)[i], timing_bins)
        g == FindTimingBinIndex(IF i <= Len(GapWidths(Pulses))
                                THEN GapWidths(Pulses)[i] ELSE 0, timing_bins)
    IN  IF p >= 0 /\ g >= 0 THEN <<128 + 16 * p + g>> ELSE <<>>

RECURSIVE ExpectedSymbols(_)
ExpectedSymbols(n) ==
    IF n = 0 THEN <<>> ELSE ExpectedSymbols(n - 1) \o ExpectedSymbol(n)

Floor(q) == q[1] \div q[2]

(* C9: a frame returned for a positive sample rate is AA B1, a byte N <= 8 *)
(* equal to the number of timing bins, N four-digit entries in ascending   *)
(* order of bin mean, the symbol bytes in pulse-train order, and 55; its   *)
(* length in hex digits is 8 + 4N + 2k for k symbol bytes                  *)
C9_FrameLayout ==
    (EncoderReturned /\ rfraw.kind = "frame" /\ RateHz > 0) =>
        LET h == rfraw.hex
            N == NumTimings
            syms == ExpectedSymbols(NumPairs)
            k == Len(syms)
        IN  /\ AllHex(h)
            /\ Len(h) = 8 + 4 * N + 2 * k
            /\ SubSeq(h, 1, 4) = <<"A", "A", "B", "1">>
            /\ HexToNat(SubSeq(h, 5, 6)) = N
            /\ N <= 8
            /\ \A j \in 1..N :
                  HexToNat(SubSeq(h, 4 * j + 3, 4 * j + 6))
                      = Min2(Floor(QMul(timing_bins[j][1], ToUs(RateHz))), 65535)
            /\ \A j \in 1..(N - 1) : QLt(timing_bins[j][1], timing_bins[j + 1][1])
            /\ \A m \in 1..k :
                  /\ HexToNat(SubSeq(h, 4 * N + 2 * m + 5, 4 * N + 2 * m + 6)) = syms[m]
                  /\ syms[m] >= 128
            /\ SubSeq(h, Len(h) - 1, Len(h)) = <<"5", "5">>

(* a frame with several timing entries, one of them clamped, and several   *)
(* symbol bytes                                                            *)
C9_Witness ==
    /\ rfraw.kind = "frame"
    /\ RateHz > 0
    /\ NumTimings >= 3
    /\ NumSymbols >= 2
    /\ \E j \in 1..NumTimings : hex_parts[3 + j] = <<"F", "F", "F", "F">>

(* C10: every timing entry of a frame is four hex digits whose value is    *)
(* floor(mean * to_us) when that is below 65535 and 65535 otherwise        *)
C10_TimingEntryClamped ==
    rfraw.kind = "frame" =>
        \A j \in 1..NumTimings :
            LET entry == hex_parts[3 + j]
                us == Floor(QMul(timing_bins[j][1], ToUs(RateHz)))
            IN  /\ Len(entry) = 4
                /\ AllHex(entry)
                /\ HexToNat(entry) \in 0..65535
                /\ HexToNat(entry) = IF us < 65535 THEN us ELSE 65535

----------------------------------------------------------------------------
(* Properties of input checking *)

(* C11: for a sample rate that is zero or negative the encoder returns no  *)
(* frame and the analyzer prints no section of its report                  *)
C11_NonPositiveRateRejected ==
    RateHz <= 0 =>
        /\ rfraw.kind # "frame"
        /\ out.sections = {}

(* C12: for a record whose pulses field is missing, empty or of length 1   *)
(* the encoder returns None without building a histogram, and analyze      *)
(* prints an error and no histogram, verdict, parameters or timings        *)
C12_ShortTrainRejected ==
    Len(Pulses) < 2 =>
        /\ pc = "idle"
        /\ rfraw.kind \in {"not_called", "None"}
        /\ out = NoOutput \/ out.error # ""
        /\ out.sections = {}
        /\ out.pulse = <<>> /\ out.gap = <<>> /\ out.period = <<>>
        /\ out.guess = "" /\ out.flex = <<>> /\ out.timings = <<>>

(* a train of one duration, refused by the encoder and by analyze *)
C12_Witness ==
    /\ Len(Pulses) = 1
    /\ rfraw.kind = "None"
    /\ out.error = "Need at least pulse and gap data"

----------------------------------------------------------------------------
(* Properties of the deriver *)

ParamVerdicts == {"PpmFixedPulse", "PwmFixedGap", "PwmFixedPeriod", "PwmWithSync"}
NoParamVerdicts == {"SinglePulse", "Unmodulated", "Unknown"}

(* C13: decoder parameters are printed only with one of the four verdicts  *)
(* PpmFixedPulse, PwmFixedGap, PwmFixedPeriod, PwmWithSync; with           *)
(* SinglePulse, Unmodulated or Unknown none are printed                    *)
C13_ParametersOnlyForDecodableSchemes ==
    "guess" \in out.sections =>
        /\ out.flex # <<>> => out.guess \in ParamVerdicts
        /\ out.guess \in NoParamVerdicts => out.flex = <<>>

(* an Unknown verdict over four or more pulse bins, without parameters *)
C13_Witness ==
    /\ "guess" \in out.sections
    /\ out.guess = "Unknown"
    /\ NumPulseBins >= 4
    /\ out.flex = <<>>

SelfPulseBinsByMean == SortByMean(AnalyzerHistogram(EvenIdx(SelfPulses)))

(* C14: with PpmFixedPulse, short_width and long_width are the means times *)
(* to_us of the lowest-mean and second-lowest-mean gap bins and gap_limit  *)
(* is long_width + 100; with PwmFixedGap and PwmFixedPeriod they are the   *)
(* means times to_us of the lowest-mean and second-lowest-mean pulse bins; *)
(* short_width < long_width in every case                                  *)
C14_ShortLongFromLowestBins ==
    ("guess" \in out.sections /\ out.guess \in {"PpmFixedPulse", "PwmFixedGap",
                                                 "PwmFixedPeriod"}) =>
        /\ out.flex # <<>>
        /\ LET f == out.flex[1]
               bs == IF out.guess = "PpmFixedPulse" THEN SelfGapBinsByMean
                     ELSE SelfPulseBinsByMean
           IN  /\ Len(bs) >= 2
               /\ f.short_width = QMul(bs[1][1], self.to_us)
               /\ f.long_width = QMul(bs[2][1], self.to_us)
               /\ out.guess = "PpmFixedPulse" =>
                     f.gap_limit = QAdd(f.long_width, Q(100))
               /\ QLt(f.short_width, f.long_width)

(* the pulse bins of the running analysis, as _create_histogram returns them *)
SelfPulseBins == AnalyzerHistogram(EvenIdx(SelfPulses))

(* C15: with PwmWithSync there are exactly 3 pulse bins, sync_width is the *)
(* mean times to_us of a bin whose count is the smallest, short_width and  *)
(* long_width are the smaller and the larger of the widths of the other    *)
(* two bins, and tolerance_us is |long_width - short_width| * 0.4          *)
C15_SyncFromRarestBin ==
    ("guess" \in out.sections /\ out.guess = "PwmWithSync") =>
        /\ out.flex # <<>>
        /\ Len(SelfPulseBins) = 3
        /\ LET f == out.flex[1]
               pb == SelfPulseBins
           IN  /\ \E sy \in 1..3 :
                     /\ \A j \in 1..3 : pb[sy][2] <= pb[j][2]
                     /\ f.sync_width = QMul(pb[sy][1], self.to_us)
                     /\ \E a, b \in (1..3) \ {sy} :
                           /\ a # b
                           /\ QLe(QMul(pb[a][1], self.to_us), QMul(pb[b][1], self.to_us))
                           /\ f.short_width = QMul(pb[a][1], self.to_us)
                           /\ f.long_width = QMul(pb[b][1], self.to_us)
               /\ QLe(f.short_width, f.long_width)
               /\ f.tolerance = QMul(QAbs(QSub(f.long_width, f.short_width)), <<2, 5>>)

(* three pulse bins of which the lowest has the largest count, so that the *)
(* sync bin is not the first bin by mean                                   *)
C15_Witness ==
    /\ "guess" \in out.sections
    /\ out.guess = "PwmWithSync"
    /\ SelfPulseBins[1][2] > SelfPulseBins[2][2]
    /\ out.flex[1].sync_width = QMul(SelfPulseBins[2][1], self.to_us)
    /\ QLt(out.flex[1].short_width, out.flex[1].long_width)

----------------------------------------------------------------------------
(* Properties of a whole report *)

(* the record with its reporting fields replaced by those of m *)
WithMeta(data, m) == m @@ [k \in DOMAIN data \cap {"pulses", "rate_Hz"} |-> data[k]]

(* an analyze() run has ended, by returning or by raising *)
AnalysisEnded == pc = "idle" /\ Constructed /\ out # NoOutput

(* C16: the verdict, the decoder parameters and the frame are those of the *)
(* record with the same pulses and rate_Hz and any other values of mod,    *)
(* count, rssi_dB, snr_dB, noise_dB and freq_Hz                            *)
C16_MetadataNeverInfluencesResults ==
    \A m \in Metas :
        /\ AnalysisEnded =>
              LET o == Analyze(NewAnalyzer(WithMeta(json_data, m)))
              IN  out.guess = o.guess /\ out.flex = o.flex
        /\ EncoderReturned => rfraw = GenerateRfrawFromRabbitmq(WithMeta(json_data, m))

(* C17: every analyze() run on a train of length >= 2 ends without an      *)
(* exception, having printed the pulse, gap and period histograms and a    *)
(* verdict, with decoder parameters when the verdict has them, whether or  *)
(* not the RfRaw section printed anything                                  *)
C17_AnalysisSectionsAlwaysEmitted ==
    (AnalysisEnded /\ Len(SelfPulses) >= 2) =>
        /\ out.error = ""
        /\ {"pulse", "gap", "period", "guess"} \subseteq out.sections
        /\ out.guess \in ParamVerdicts \cup NoParamVerdicts
        /\ out.guess \in ParamVerdicts => out.flex # <<>>

(* C18: the call of _suggest_flex_decoder leaves the two bin lists of      *)
(* _guess_modulation as the histogram builder returned them                *)
C18_DeriverLeavesBinsAlone ==
    [][(pc = "A_guess_gap" /\ pc' = "A_rfraw") =>
           (pulse_bins' = pulse_bins /\ gap_bins' = bins)]_vars

----------------------------------------------------------------------------
(* Properties of concurrent and repeated calls *)

(* what a thread holds is what its calls give when they run alone: the     *)
(* value the encoder returned, the analyzer object as __init__ built it,   *)
(* and the report of the last analyze() run                                *)
ThreadAlone(t) ==
    /\ (t.pc = "idle" /\ t.rfraw.kind # "not_called") =>
          t.rfraw = GenerateRfrawFromRabbitmq(t.json_data)
    /\ DOMAIN t.self # {} => t.self = NewAnalyzer(t.json_data)
    /\ (t.pc = "idle" /\ DOMAIN t.self # {} /\ t.out # NoOutput) =>
          t.out = Analyze(t.self)

Running ==
    ThreadState(json_data, pc, sorted_values, bins, tolerance, timing_bins, hex_parts,
                enc_i, rfraw, self, pulse_bins, gap_bins, out)

(* no step changes the input record of either thread *)
InputsKept ==
    \/ json_data' = json_data /\ other'.json_data = other.json_data
    \/ json_data' = other.json_data /\ other'.json_data = json_data

(* C19: under every interleaving of the steps of two threads, and however  *)
(* often a call is repeated, each call gives the result it gives alone,    *)
(* and no step changes an input record or a field of an analyzer           *)
C19_NoStateAcrossCalls ==
    /\ [](ThreadAlone(Running) /\ ThreadAlone(other))
    /\ [][InputsKept]_vars

(* both threads have finished one call and are in the middle of another,   *)
(* on different records                                                    *)
C19_Witness ==
    /\ json_data # other.json_data
    /\ pc = "A_guess_gap"
    /\ rfraw.kind = "frame"
    /\ other.pc = "E_encode"
    /\ other.out.guess # ""

----------------------------------------------------------------------------
(* Properties of the histogram builder at tolerance 0 *)

Multiplicity(v, s) == Cardinality({k \in DOMAIN s : s[k] = v})

(* C20: at tolerance 0 there is exactly one bin per distinct value         *)
(* consumed, with count the multiplicity of the value and min = mean = max *)
(* = the value                                                             *)
C20_ZeroToleranceOneBinPerValue ==
    (InHist /\ tolerance = <<0, 1>>) =>
        LET done == Processed
            vals == {done[k] : k \in DOMAIN done}
        IN  /\ Len(bins) = Cardinality(vals)
            /\ \A v \in vals :
                  \E i \in DOMAIN bins : bins[i] = <<Q(v), Multiplicity(v, done), v, v>>

(* a returned histogram at tolerance 0 that keeps 5 and 6 apart and holds  *)
(* a value twice                                                           *)
C20_Witness ==
    /\ pc = "H_done"
    /\ tolerance = <<0, 1>>
    /\ \E i \in DOMAIN bins : bins[i][1] = Q(5)
    /\ \E i \in DOMAIN bins : bins[i][1] = Q(6) /\ bins[i][2] = 2

----------------------------------------------------------------------------
(* Properties of the unit conversion *)

(* duration * 1e6 / sample_rate *)
Microseconds(duration, sample_rate) ==
    QDiv(QMul(Q(duration), Q(1000000)), Q(sample_rate))

(* the sample rate of a record: its rate_Hz field, 250000 without one *)
RateOf(data) == IF "rate_Hz" \in DOMAIN data THEN data.rate_Hz ELSE 250000

(* C21: the analyzer and the encoder convert a duration to microseconds as *)
(* duration * 1e6 / sample_rate, the sample rate being the rate_Hz field   *)
(* of the record and 250000 when the record has none; at 250000 Hz the     *)
(* factor is 4 and 25 ticks are exactly 100 microseconds                   *)
C21_TicksToMicroseconds ==
    /\ (Constructed /\ pc = "idle" /\ out = NoOutput) =>
          /\ self.sample_rate = RateOf(json_data)
          /\ \A d \in {SelfPulses[k] : k \in DOMAIN SelfPulses} :
                QMul(Q(d), self.to_us) = Microseconds(d, RateOf(json_data))
    /\ "rfraw" \in out.sections =>
          \A k \in DOMAIN SelfPulses :
              out.timings[1][k] = PyInt(Microseconds(SelfPulses[k], RateOf(json_data)))
    /\ (EncoderReturned /\ rfraw.kind = "frame") =>
          \A j \in 1..NumTimings :
              hex_parts[3 + j]
                  = FormatX(Min2(PyInt(QDiv(QMul(timing_bins[j][1], Q(1000000)),
                                            Q(RateOf(json_data)))), 65535), 4)
    /\ pc = "A_rfraw" =>
          /\ NewAnalyzer([pulses |-> <<25, 25>>, rate_Hz |-> 250000]).to_us = Q(4)
          /\ NewAnalyzer([pulses |-> <<25, 25>>]).to_us = Q(4)
          /\ GenerateRfraw(<<25>>, NewAnalyzer([pulses |-> <<25, 25>>]).to_us)
                = << <<100>> >>
          /\ QMul(Q(25), ToUs(250000)) = Microseconds(25, 250000)
          /\ Microseconds(25, 250000) = Q(100)

(* a record without rate_Hz whose 100 ticks are printed as 400 and written *)
(* to the frame as a timing entry at factor 4                              *)
C21_Witness ==
    /\ "rate_Hz" \notin DOMAIN json_data
    /\ "rfraw" \in out.sections
    /\ \E k \in DOMAIN SelfPulses : SelfPulses[k] = 100 /\ out.timings[1][k] = 400
    /\ rfraw.kind = "frame"

----------------------------------------------------------------------------
(* Properties of one step of the histogram loop *)

(* the bins passing the tolerance test for value v *)
Candidates(v) ==
    {i \in DOMAIN bins :
        QLe(QAbs(QSub(Q(v), bins[i][1])), QMul(bins[i][1], tolerance))}

(* one iteration of the loop, as the rule describes it *)
StepByRule ==
    LET v == Head(sorted_values)
        hits == Candidates(v)
    IN  IF hits # {}
        THEN LET i == CHOOSE h \in hits : \A g \in hits : h <= g
                 b == bins[i]
             IN  /\ Len(bins') = Len(bins)
                 /\ bins'[i][1] = QDiv(QAdd(QMul(b[1], Q(b[2])), Q(v)), Q(b[2] + 1))
                 /\ bins'[i][2] = b[2] + 1
                 /\ bins'[i][3] = (IF v < b[3] THEN v ELSE b[3])
                 /\ bins'[i][4] = (IF v > b[4] THEN v ELSE b[4])
                 /\ \A j \in DOMAIN bins : j # i => bins'[j] = bins[j]
        ELSE bins' = bins \o << <<Q(v), 1, v, v>> >>

(* the values a bin has merged: those consumed that lie in its range *)
MergedInto(done, b) == {k \in DOMAIN done : InRange(done[k], b)}

RECURSIVE SumOver(_, _)
SumOver(s, ks) ==
    IF ks = {} THEN 0
    ELSE LET k == CHOOSE x \in ks : TRUE IN s[k] + SumOver(s, ks \ {k})

(* the values still to come are ascending and follow those consumed, and   *)
(* each bin's mean is the arithmetic mean of the values merged into it     *)
AscendingAndMeans ==
    pc \in HistSites =>
        LET all == Sorted(HistInput)
            done == SubSeq(all, 1, Len(all) - Len(sorted_values))
        IN  /\ done \o sorted_values = all
            /\ \A k \in 1..(Len(sorted_values) - 1) :
                  sorted_values[k] <= sorted_values[k + 1]
            /\ \A i \in DOMAIN bins :
                  LET ks == MergedInto(done, bins[i])
                  IN  /\ Cardinality(ks) = bins[i][2]
                      /\ QMul(bins[i][1], Q(bins[i][2])) = Q(SumOver(done, ks))

(* C22: the loop takes the values in ascending order; each step merges the *)
(* value into the earliest-created bin passing the tolerance test, with    *)
(* mean' = (mean*count + v)/(count+1), count' = count+1, min' = min(min,   *)
(* v), max' = max(max, v) and the other bins unchanged, and appends the    *)
(* bin (v, 1, v, v) exactly when no bin passes; each bin's mean is the     *)
(* arithmetic mean of the values merged into it                            *)
C22_StepMergesIntoFirstMatch ==
    /\ []AscendingAndMeans
    /\ [][(pc \in HistSites /\ pc' = pc /\ sorted_values # <<>>) =>
             (sorted_values' = Tail(sorted_values) /\ StepByRule)]_vars

(* in the middle of a construction, a second bin that has merged two       *)
(* different values, with values still to come                             *)
C22_Witness ==
    /\ pc \in HistSites
    /\ sorted_values # <<>>
    /\ Len(bins) >= 2
    /\ bins[2][2] >= 2
    /\ bins[2][3] < bins[2][4]

----------------------------------------------------------------------------
(* Properties of the symbol bytes *)

(* bit k of a non-negative integer *)
Bit(n, k) == (n \div Pow2(k)) % 2

(* C23: every symbol byte of a returned frame is two hex digits with value *)
(* 0x80 | (pulse_idx << 4) | gap_idx, both indices in 0..N-1 and N <= 8:   *)
(* the value lies in 0x80..0xF7, bit 7 is set, bits 4-6 hold the pulse     *)
(* index, bits 0-2 the gap index, and bit 3 is clear                       *)
C23_SymbolByteLayout ==
    (EncoderReturned /\ rfraw.kind = "frame") =>
        LET syms == ExpectedSymbols(NumPairs)
            parts == SymbolParts
        IN  /\ NumTimings <= 8
            /\ Len(parts) = Len(syms)
            /\ \A m \in DOMAIN parts :
                  LET v == HexToNat(parts[m])
                      p == (v \div 16) - 8
                      g == v % 16
                  IN  /\ Len(parts[m]) = 2
                      /\ AllHex(parts[m])
                      /\ v = syms[m]
                      /\ v \in 128..247
                      /\ Bit(v, 7) = 1
                      /\ Bit(v, 3) = 0
                      /\ p \in 0..(NumTimings - 1)
                      /\ g \in 0..(NumTimings - 1)
                      /\ v = 128 + 16 * p + g

(* a frame of 8 timings whose last symbol byte is F0: pulse index 7 *)
C23_Witness ==
    /\ rfraw.kind = "frame"
    /\ NumTimings = 8
    /\ NumSymbols >= 4
    /\ SymbolParts[NumSymbols] = <<"F", "0">>

----------------------------------------------------------------------------
(* Properties of the order of the bins *)

(* strictly ascending means; ranges disjoint and in the same order *)
BinsOrdered(bs) ==
    \A i \in 1..(Len(bs) - 1) :
        /\ QLt(bs[i][1], bs[i + 1][1])
        /\ bs[i][4] < bs[i + 1][3]

(* C24: at every step of a construction, for each tolerance >= 0, the bins *)
(* in creation order have strictly ascending means and ranges with max of  *)
(* bin i < min of bin i+1; sorting them by mean changes nothing, and the   *)
(* final sort of create_histogram returns them in creation order           *)
C24_CreationOrderIsMeanOrder ==
    /\ [](InHist => (BinsOrdered(bins) /\ SortByMean(bins) = bins))
    /\ [][(pc = "H_hist" /\ pc' = "H_done") => bins' = bins]_vars

(* a returned histogram at tolerance 1 with three or more bins, one of     *)
(* them merged from different values                                       *)
C24_Witness ==
    /\ pc = "H_done"
    /\ tolerance = <<1, 1>>
    /\ Len(bins) >= 3
    /\ \E i \in DOMAIN bins : bins[i][3] < bins[i][4]

----------------------------------------------------------------------------
(* Properties of the bin a value is assigned to *)

(* distance of value v from the mean of bin i *)
Distance(v, i) == QAbs(QSub(Q(v), bins[i][1]))

(* the bins a best-match rule could choose for v: those passing the test   *)
(* whose mean is nearest to v                                              *)
BestMatches(v) ==
    {i \in Candidates(v) : \A j \in Candidates(v) : QLe(Distance(v, i), Distance(v, j))}

(* the next value passes the test of at most one bin, the last one made,   *)
(* so the first match is the best match                                    *)
OnlyLastBinMatches ==
    (pc \in HistSites /\ sorted_values # <<>>) =>
        LET v == Head(sorted_values)
        IN  /\ Candidates(v) \subseteq {Len(bins)}
            /\ Cardinality(Candidates(v)) <= 1
            /\ BestMatches(v) = Candidates(v)
            /\ FirstMatch(v, bins, tolerance) # 0 =>
                  BestMatches(v) = {FirstMatch(v, bins, tolerance)}

(* C25: when a value is processed at most one existing bin passes the      *)
(* tolerance test and it is the most recently created one; no step changes *)
(* a bin after a later bin has been created; first-match and best-match    *)
(* assignment give the same bins                                           *)
C25_OnlyNewestBinReceives ==
    /\ []OnlyLastBinMatches
    /\ [][(pc \in HistSites /\ pc' = pc) =>
             \A i \in 1..(Len(bins) - 1) : bins'[i] = bins[i]]_vars

(* four bins made, the newest one about to merge another value *)
C25_Witness ==
    /\ pc \in HistSites
    /\ sorted_values # <<>>
    /\ Len(bins) >= 4
    /\ Candidates(Head(sorted_values)) = {Len(bins)}

----------------------------------------------------------------------------
(* Properties of the two histogram builders together *)

(* C26: on the same values, create_histogram at tolerance 0.2 and          *)
(* PulseDataAnalyzer._create_histogram return the same bins in the same    *)
(* order: the timing table the encoder got from create_histogram is what   *)
(* _create_histogram gives for the same timings, and each list the         *)
(* analyzer got from _create_histogram is what create_histogram gives      *)
C26_HistogramBuildersAgree ==
    /\ (pc = "E_encode" /\ enc_i = 1) =>
          timing_bins = AnalyzerHistogram(AllTimings)
    /\ (EncoderReturned /\ rfraw.kind = "None" /\ timing_bins # <<>>) =>
          timing_bins = AnalyzerHistogram(AllTimings)
    /\ (pc \in {"A_guess_pulse", "A_guess_gap"} /\ sorted_values = <<>>) =>
          bins = CreateHistogram(HistInput, DefaultTolerance)
    /\ pc = "A_gap_dist" =>
          out.pulse = CreateHistogram(EvenIdx(SelfPulses), DefaultTolerance)
    /\ pc = "A_period_dist" =>
          out.gap = CreateHistogram(OddIdx(SelfPulses), DefaultTolerance)
    /\ pc = "A_levels" =>
          out.period = CreateHistogram(Periods(EvenIdx(SelfPulses), OddIdx(SelfPulses)),
                                       DefaultTolerance)
    /\ (pc = "idle" /\ rfraw = NotCalled /\ out = NoOutput) =>
          /\ CreateHistogram(<<>>, DefaultTolerance) = AnalyzerHistogram(<<>>)
          /\ CreateHistogram(Pulses, DefaultTolerance) = AnalyzerHistogram(Pulses)

(* a timing table of several bins, one merged from different values, and   *)
(* a finished pulse histogram of the analyzer with more than one bin       *)
C26_Witness ==
    /\ pc = "A_guess_pulse"
    /\ sorted_values = <<>>
    /\ Len(bins) >= 2
    /\ Len(timing_bins) >= 3
    /\ \E i \in DOMAIN timing_bins : timing_bins[i][3] < timing_bins[i][4]

----------------------------------------------------------------------------
(* The deriver's fallbacks *)

(* C27: in every analyze() run that reaches the deriver the train has at   *)
(* least 2 entries and none of the deriver's fallbacks is taken: gap_bins  *)
(* is not empty and reset_limit is the last gap bin's value plus 100, not  *)
(* the fixed 10000; the second bin exists and long_width is its mean       *)
(* times to_us, not short_width * 2; a sync derivation has exactly 3 pulse *)
(* bins; every index used into pulse_bins and gap_bins is in range         *)
C27_DeriverFallbacksNeverTaken ==
    (pc = "A_rfraw" /\ out.flex # <<>>) =>
        LET f == out.flex[1]
        IN  /\ Len(SelfPulses) >= 2
            /\ pulse_bins # <<>>
            /\ gap_bins # <<>>
            /\ f.reset_limit =
                   QAdd(QMul(Q(gap_bins[Len(gap_bins)][3]), self.to_us), Q(100))
            /\ f.modulation = "OOK_PPM" =>
                   /\ Len(gap_bins) >= 2
                   /\ f.short_width = QMul(gap_bins[1][1], self.to_us)
                   /\ f.long_width = QMul(gap_bins[2][1], self.to_us)
            /\ (f.modulation = "OOK_PWM" /\ ~f.has_sync) =>
                   /\ Len(pulse_bins) >= 2
                   /\ f.short_width = QMul(pulse_bins[1][1], self.to_us)
                   /\ f.long_width = QMul(pulse_bins[2][1], self.to_us)
            /\ (f.modulation = "OOK_PWM" /\ f.has_sync) =>
                   /\ Len(pulse_bins) = 3
                   /\ f.sync_width = QMul(pulse_bins[1][1], self.to_us)
                   /\ {f.short_width, f.long_width} =
                         {QMul(pulse_bins[2][1], self.to_us),
                          QMul(pulse_bins[3][1], self.to_us)}

(* the shortest train that reaches the deriver: two pulses of different    *)
(* widths around a single gap, so that gap_bins has just the one bin       *)
C27_Witness ==
    /\ pc = "A_rfraw"
    /\ out.flex # <<>>
    /\ out.guess = "PwmFixedGap"
    /\ Len(SelfPulses) = 3
    /\ Len(pulse_bins) = 2
    /\ Len(gap_bins) = 1

====
